---- MODULE Spec2Model ----
(***************************************************************************)
(* Model of git_pile/config.py: the Config class, which loads the pile.*   *)
(* settings of the git configuration into attributes, validates them,      *)
(* reverts them to another Config and removes the pile section.            *)
(*                                                                         *)
(* Text is a sequence of symbols.  A symbol is one character where the     *)
(* code looks at characters (the prefix "pile.", the separators "-" "."    *)
(* "_", the blank and the newline) and one word without separators where   *)
(* it does not ("dir", "branch", "d1").                                    *)
(***************************************************************************)
EXTENDS Integers, Sequences, FiniteSets, TLC

VARIABLES backend, self, log, last, warnings

vars == <<backend, self, log, last, warnings>>

\* ------------------------------------------------------------------ bounds
\* The most settings the git configuration holds besides the three
\* canonical ones: when it is only loaded, and when it is also written.
MaxExtra == 2
MaxWrittenExtra == 1

\* ------------------------------------------------------------------ text
SP == " "
NL == "\n"
Whitespace == {SP, NL}

RECURSIVE LStrip(_)
LStrip(s) == IF s # <<>> /\ Head(s) \in Whitespace THEN LStrip(Tail(s)) ELSE s

RECURSIVE RStrip(_)
RStrip(s) ==
    IF s # <<>> /\ s[Len(s)] \in Whitespace
    THEN RStrip(SubSeq(s, 1, Len(s) - 1))
    ELSE s

\* str.strip()
Strip(s) == LStrip(RStrip(s))

\* The index of the first symbol c of s, 0 when there is none.
RECURSIVE Find(_, _, _)
Find(s, c, i) ==
    IF i > Len(s) THEN 0
    ELSE IF s[i] = c THEN i
    ELSE Find(s, c, i + 1)

\* s.split("\n")
RECURSIVE SplitLines(_)
SplitLines(s) ==
    LET i == Find(s, NL, 1)
    IN  IF i = 0 THEN <<s>>
        ELSE <<SubSeq(s, 1, i - 1)>> \o SplitLines(SubSeq(s, i + 1, Len(s)))

\* s.split(maxsplit=1, sep=" ")
SplitOnce(s) ==
    LET i == Find(s, SP, 1)
    IN  IF i = 0 THEN <<s>>
        ELSE <<SubSeq(s, 1, i - 1), SubSeq(s, i + 1, Len(s))>>

DropPrefixFour(key) == SubSeq(key, 5, Len(key))

\* key[5:]
DropPrefix(key) == SubSeq(key, 6, Len(key))

\* str.translate(str.maketrans("-.", "__"))
Translate(s) == [i \in 1..Len(s) |-> IF s[i] \in {"-", "."} THEN "_" ELSE s[i]]

\* The name of the attribute a configuration key is stored under.
FieldName(key) == Translate(DropPrefix(key))

\* str.lower(), on the words the model's values are made of.
LowerSym(c) ==
    CASE c = "YES" -> "yes"
      [] c = "On" -> "on"
      [] c = "True" -> "true"
      [] c = "No" -> "no"
      [] OTHER -> c

Lower(s) == [i \in 1..Len(s) |-> LowerSym(s[i])]

\* ------------------------------------------------------------------ values
\* A Python value: a tag and a text.
Str(s) == [t |-> "str", v |-> s]
None == [t |-> "None", v |-> <<>>]
Bool(b) == [t |-> "bool", v |-> IF b THEN <<"True">> ELSE <<"False">>]
RunWrapper(cmd) == [t |-> "run_wrapper", v |-> cmd]
Method(name) == [t |-> "method", v |-> name]

\* bool(value) of an if statement
Truthy(x) ==
    CASE x.t = "str" -> x.v # <<>>
      [] x.t = "None" -> FALSE
      [] x.t = "bool" -> x = Bool(TRUE)
      [] OTHER -> TRUE

\* ------------------------------------------------------------------ names
PILE == <<"p", "i", "l", "e", ".">>

dir == <<"dir">>
linear_branch == <<"linear", "_", "branch">>
result_branch == <<"result", "_", "branch">>
pile_branch == <<"pile", "_", "branch">>
format_add_header == <<"format", "_", "add", "_", "header">>
format_output_directory == <<"format", "_", "output", "_", "directory">>
format_compose == <<"format", "_", "compose">>
format_signoff == <<"format", "_", "signoff">>
genbranch_committer_date_is_author_date ==
    <<"genbranch", "_", "committer", "_", "date", "_", "is", "_", "author", "_", "date">>
genbranch_user_name == <<"genbranch", "_", "user", "_", "name">>
genbranch_user_email == <<"genbranch", "_", "user", "_", "email">>
genbranch_use_cache == <<"genbranch", "_", "use", "_", "cache">>
genbranch_cache_path == <<"genbranch", "_", "cache", "_", "path">>
write == <<"write">>

is_valid == <<"is", "_", "valid">>
check_is_valid == <<"check", "_", "is", "_", "valid">>
value_to_bool == <<"_", "value", "_", "to", "_", "bool">>
revert == <<"revert">>
destroy == <<"destroy">>

\* The methods the class defines; an instance attribute of the same name
\* hides them.
ClassMethods == {value_to_bool, is_valid, check_is_valid, revert, destroy}

CanonicalFields == {dir, result_branch, pile_branch}

BoolFields ==
    {format_compose, format_signoff, genbranch_committer_date_is_author_date,
     genbranch_use_cache}

DeclaredFields ==
    {dir, linear_branch, result_branch, pile_branch, format_add_header,
     format_output_directory, format_compose, format_signoff,
     genbranch_committer_date_is_author_date, genbranch_user_name,
     genbranch_user_email, genbranch_use_cache, genbranch_cache_path}

\* ------------------------------------------------------------------ objects
\* An instance is its attribute dictionary: a function from names to values.
HasAttr(obj, name) == name \in DOMAIN obj \/ name \in ClassMethods

GetAttr(obj, name) == IF name \in DOMAIN obj THEN obj[name] ELSE Method(name)

SetAttr(obj, name, value) ==
    [n \in DOMAIN obj \cup {name} |-> IF n = name THEN value ELSE obj[n]]

\* Whether obj.name(...) calls the method of the class.
Callable(obj, name) == GetAttr(obj, name).t = "method"

\* ------------------------------------------------------------------ git
\* The git configuration: whether extensions.worktreeConfig is set, and the
\* settings in file order.  A setting is a key with a value, or a bare key.
Entry(key, value) == [key |-> key, bare |-> FALSE, value |-> value]
BareEntry(key) == [key |-> key, bare |-> TRUE, value |-> <<>>]

\* The regular expression ^pile\.* : "pile" at the start of the key, then any
\* number of dots.
MatchesRegexp(key) == Len(key) >= 4 /\ SubSeq(key, 1, 4) = SubSeq(PILE, 1, 4)

\* One line of the output of git config --get-regexp: the key, then a blank
\* and the value unless the key is bare.
GitLine(e) == e.key \o (IF e.bare THEN <<>> ELSE <<SP>> \o e.value) \o <<NL>>

\* The standard output of git config --get-regexp "^pile\.*".
RECURSIVE GetRegexp(_)
GetRegexp(entries) ==
    IF entries = <<>> THEN <<>>
    ELSE (IF MatchesRegexp(Head(entries).key) THEN GitLine(Head(entries)) ELSE <<>>)
         \o GetRegexp(Tail(entries))

GitConfig == <<"git", "config">>
GitConfigWorktree == <<"git", "config", "--worktree">>

\* ------------------------------------------------------------------ Config
per_worktree(b) == b.worktreeConfig

\* The attributes __init__ sets before it reads the configuration.
Defaults(b) ==
    (dir :> Str(<<>>)) @@ (linear_branch :> Str(<<>>)) @@
    (result_branch :> Str(<<>>)) @@ (pile_branch :> Str(<<>>)) @@
    (format_add_header :> Str(<<>>)) @@
    (format_output_directory :> Str(<<>>)) @@
    (format_compose :> Bool(FALSE)) @@ (format_signoff :> Bool(FALSE)) @@
    (genbranch_committer_date_is_author_date :> Bool(TRUE)) @@
    (genbranch_user_name :> None) @@ (genbranch_user_email :> None) @@
    (genbranch_use_cache :> Bool(TRUE)) @@
    (genbranch_cache_path :> Str(<<"pile-genbranch-cache.pickle">>)) @@
    (write :> RunWrapper(IF per_worktree(b) THEN GitConfigWorktree ELSE GitConfig))

TruthyTokens == {<<"yes">>, <<"on">>, <<"true">>, <<"1">>}

\* Config._value_to_bool
ValueToBool(value) == value = None \/ Lower(value.v) \in TruthyTokens

\* The body of the loop of __init__ for one line kv: the instance after it and
\* the warning it gives, if any.
LoadLine(obj, kv) ==
    LET parts == SplitOnce(Strip(kv))
        unpacked == Len(parts) = 2
        key == FieldName(IF unpacked THEN parts[1] ELSE kv)
        value == IF unpacked THEN Str(parts[2]) ELSE None
        isBool == HasAttr(obj, key) /\ GetAttr(obj, key).t = "bool"
    IN  IF isBool /\ ~Callable(obj, value_to_bool)
        THEN [obj |-> obj, warned |-> <<[key |-> key, value |-> value]>>]
        ELSE [obj |-> SetAttr(obj, key,
                              IF isBool THEN Bool(ValueToBool(value)) ELSE value),
              warned |-> <<>>]

\* The loop of __init__ over the lines.
RECURSIVE LoadLines(_, _, _)
LoadLines(obj, lines, warned) ==
    IF lines = <<>> THEN [obj |-> obj, warned |-> warned]
    ELSE LET r == LoadLine(obj, Head(lines))
         IN  LoadLines(r.obj, Tail(lines), warned \o r.warned)

ConfigWithoutReturn(b) ==
    LoadLines(Defaults(b), SplitLines(Strip(GetRegexp(b.entries))), <<>>)

\* Config(): the instance constructed from the git configuration b, and the
\* warnings given while loading.
Config(b) ==
    LET s == Strip(GetRegexp(b.entries))
    IN  IF s = <<>> THEN [obj |-> Defaults(b), warned |-> <<>>]
        ELSE LoadLines(Defaults(b), SplitLines(s), <<>>)

\* Config.is_valid
IsValid(obj) ==
    /\ GetAttr(obj, dir) # Str(<<>>)
    /\ GetAttr(obj, result_branch) # Str(<<>>)
    /\ GetAttr(obj, pile_branch) # Str(<<>>)

\* ------------------------------------------------------------------ writes
\* str.split(): the words of a text.
RECURSIVE SplitWords(_)
SplitWords(s) ==
    LET t == Strip(s)
        i == Find(t, SP, 1)
    IN  IF t = <<>> THEN <<>>
        ELSE IF i = 0 THEN <<t>>
        ELSE <<SubSeq(t, 1, i - 1)>> \o SplitWords(SubSeq(t, i + 1, Len(t)))

SectionPile == SubSeq(PILE, 1, 4)

InSection(key) == Len(key) >= 5 /\ SubSeq(key, 1, 5) = PILE

\* git config --remove-section pile, and git config <key> <value>: the
\* configuration afterwards and the exit status.  locked: the configuration
\* file cannot be written while the operation runs.
RunGit(b, argv, locked) ==
    LET entries == b.entries
        idx == DOMAIN entries
    IN  IF locked THEN [backend |-> b, rc |-> 255]
        ELSE IF argv = <<<<"--remove-section">>, SectionPile>>
        THEN IF \A i \in idx : ~InSection(entries[i].key)
             THEN [backend |-> b, rc |-> 128]
             ELSE [backend |-> [b EXCEPT !.entries =
                                   SelectSeq(entries, LAMBDA e : ~InSection(e.key))],
                   rc |-> 0]
        ELSE IF Len(argv) = 2
        THEN LET hits == {i \in idx : entries[i].key = argv[1]}
             IN  IF Cardinality(hits) > 1 THEN [backend |-> b, rc |-> 5]
                 ELSE IF hits = {}
                 THEN [backend |-> [b EXCEPT !.entries =
                                       Append(entries, Entry(argv[1], argv[2]))],
                       rc |-> 0]
                 ELSE [backend |-> [b EXCEPT !.entries =
                                       [i \in idx |-> IF i \in hits
                                                      THEN Entry(argv[1], argv[2])
                                                      ELSE entries[i]]],
                       rc |-> 0]
        ELSE [backend |-> b, rc |-> 129]

\* What an operation has done so far: the instance, the git configuration,
\* the effects in the order they happened, the exception that ended it ("" if
\* none), the value returned and the exit status of the last command run.
Running(obj, b) ==
    [obj |-> obj, backend |-> b, log |-> <<>>, exc |-> "", ret |-> None, rc |-> 0]

RunEvent(cmd, text, rc) == [ev |-> "run", name |-> cmd, val |-> Str(text), rc |-> rc]
SetEvent(name, value) == [ev |-> "setattr", name |-> name, val |-> value, rc |-> 0]
ErrorEvent == [ev |-> "error", name |-> <<>>, val |-> None, rc |-> 0]

\* self.write(text, check=check): the call of whatever the attribute write
\* holds.  A run_wrapper runs its command with the words of text appended and
\* raises on a non-zero exit status when check is set.
Write(st, text, check, locked) ==
    LET w == GetAttr(st.obj, write)
        r == RunGit(st.backend, SplitWords(text), locked)
    IN  IF w.t # "run_wrapper" THEN [st EXCEPT !.exc = "TypeError"]
        ELSE [st EXCEPT !.backend = r.backend,
                        !.log = Append(@, RunEvent(w.v, text, r.rc)),
                        !.exc = IF check /\ r.rc # 0 THEN "CalledProcessError" ELSE "",
                        !.rc = r.rc]

RemoveSectionText == <<"--remove-section", SP>> \o SectionPile

\* Config.destroy
Destroy(st, locked) ==
    IF ~Callable(st.obj, destroy) THEN [st EXCEPT !.exc = "TypeError"]
    ELSE LET w == Write(st, RemoveSectionText, FALSE, locked)
         IN  IF w.exc # "" THEN w
             ELSE [w EXCEPT !.ret = Bool(w.rc = 0)]

KeyOf(field) ==
    CASE field = dir -> PILE \o <<"dir">>
      [] field = result_branch -> PILE \o <<"result", "-", "branch">>
      [] field = pile_branch -> PILE \o <<"pile", "-", "branch">>

\* One of the three steps of revert: copy the field, and write it when it is
\* not empty.  checked: whether a run_wrapper raises on a non-zero exit status
\* when the call does not say.
CopyField(st, other, field, locked, checked) ==
    IF st.exc # "" THEN st
    ELSE LET v == GetAttr(other, field)
             copied == [st EXCEPT !.obj = SetAttr(st.obj, field, v),
                                  !.log = Append(@, SetEvent(field, v))]
         IN  IF Truthy(v)
             THEN Write(copied, KeyOf(field) \o <<SP>> \o v.v, checked, locked)
             ELSE copied

RevertDestroyingValid(st, other, locked, checked) ==
    IF ~Callable(st.obj, revert) \/ ~Callable(other, is_valid)
    THEN [st EXCEPT !.exc = "TypeError"]
    ELSE LET destroyed == IF IsValid(other) THEN Destroy(st, locked) ELSE st
             d == CopyField(destroyed, other, dir, locked, checked)
             r == CopyField(d, other, result_branch, locked, checked)
             p == CopyField(r, other, pile_branch, locked, checked)
         IN  [p EXCEPT !.ret = None]

\* Config.revert
Revert(st, other, locked, checked) ==
    IF ~Callable(st.obj, revert) \/ ~Callable(other, is_valid)
    THEN [st EXCEPT !.exc = "TypeError"]
    ELSE LET destroyed == IF ~IsValid(other) THEN Destroy(st, locked) ELSE st
             d == CopyField(destroyed, other, dir, locked, checked)
             r == CopyField(d, other, result_branch, locked, checked)
             p == CopyField(r, other, pile_branch, locked, checked)
         IN  [p EXCEPT !.ret = None]

\* Config.is_valid, called
CallIsValid(st) ==
    IF ~Callable(st.obj, is_valid) THEN [st EXCEPT !.exc = "TypeError"]
    ELSE [st EXCEPT !.ret = Bool(IsValid(st.obj))]

\* Config.check_is_valid
CheckIsValid(st) ==
    IF ~Callable(st.obj, check_is_valid) THEN [st EXCEPT !.exc = "TypeError"]
    ELSE LET v == CallIsValid(st)
         IN  IF v.exc # "" THEN v
             ELSE IF v.ret = Bool(FALSE)
             THEN [v EXCEPT !.log = Append(@, ErrorEvent)]
             ELSE v

\* ------------------------------------------------------------------ inputs
SeqsUpTo(S, n) == UNION {[1..k -> S] : k \in 0..n}

KeyFormatCompose == PILE \o <<"format", "-", "compose">>
KeyUseCache == PILE \o <<"genbranch", "-", "use", "-", "cache">>
KeyWrite == PILE \o <<"write">>
KeyValueToBool == PILE \o <<"-", "value", ".", "to", "-", "bool">>
KeyIsValid == PILE \o <<"is", "-", "valid">>
KeyResultDotBranch == PILE \o <<"result", ".", "branch">>

\* The canonical settings a git configuration starts with.
CanonicalEntries ==
    {d \o r \o p :
        d \in {<<>>, <<BareEntry(KeyOf(dir))>>, <<Entry(KeyOf(dir), <<"d1">>)>>},
        r \in {<<>>, <<Entry(KeyOf(result_branch), <<"r1">>)>>},
        p \in {<<>>, <<Entry(KeyOf(pile_branch), <<"p1">>)>>}}

\* The other settings it may hold.
ExtraEntries ==
    {Entry(KeyFormatCompose, <<"YES">>), BareEntry(KeyFormatCompose),
     Entry(KeyFormatCompose, <<>>), Entry(KeyUseCache, <<"no">>),
     Entry(KeyWrite, <<"x">>), Entry(KeyValueToBool, <<"x">>),
     Entry(KeyIsValid, <<"x">>), Entry(KeyResultDotBranch, <<"r2">>),
     Entry(KeyOf(dir), <<"d2">>)}

\* The git configurations the instances are loaded from.
LoadedBackends ==
    {[worktreeConfig |-> w, entries |-> c \o x] :
        w \in BOOLEAN, c \in CanonicalEntries, x \in SeqsUpTo(ExtraEntries, MaxExtra)}

\* The other settings of a git configuration that is also written.
WrittenExtraEntries ==
    {Entry(KeyUseCache, <<"no">>), Entry(KeyWrite, <<"x">>),
     Entry(KeyIsValid, <<"x">>), Entry(KeyOf(dir), <<"d2">>)}

Backends ==
    {[worktreeConfig |-> w, entries |-> c \o x] :
        w \in BOOLEAN, c \in CanonicalEntries,
        x \in SeqsUpTo(WrittenExtraEntries, MaxWrittenExtra)}

\* The instances revert is called with: constructed from these settings.
OtherEntries ==
    {<<>>,
     <<Entry(KeyOf(dir), <<"d3">>), Entry(KeyOf(result_branch), <<"r3">>),
       Entry(KeyOf(pile_branch), <<"p3">>)>>,
     <<BareEntry(KeyOf(dir)), Entry(KeyOf(result_branch), <<"r3">>),
       Entry(KeyOf(pile_branch), <<"p3">>)>>,
     <<Entry(KeyOf(dir), <<"d3">>)>>,
     <<Entry(KeyOf(result_branch), <<"r3">>), Entry(KeyOf(pile_branch), <<"p3">>)>>,
     <<Entry(KeyOf(dir), <<"d3">>), Entry(KeyOf(result_branch), <<"r3">>),
       Entry(KeyOf(pile_branch), <<"p3">>), Entry(KeyIsValid, <<"x">>)>>}

Others == {Config([worktreeConfig |-> FALSE, entries |-> e]).obj : e \in OtherEntries}

\* ------------------------------------------------------------------ state
\* last: the operation that led to this state, the argument of revert and
\* how the operation ended.
NoOther == [valid |-> "", dir |-> None, result_branch |-> None, pile_branch |-> None]

OtherOf(o) ==
    [valid |-> IF Callable(o, is_valid)
               THEN (IF IsValid(o) THEN "True" ELSE "False")
               ELSE "TypeError",
     dir |-> GetAttr(o, dir),
     result_branch |-> GetAttr(o, result_branch),
     pile_branch |-> GetAttr(o, pile_branch)]

Ended(op, st, other) ==
    /\ self' = st.obj
    /\ backend' = st.backend
    /\ log' = st.log
    /\ last' = [op |-> op, other |-> other, exc |-> st.exc, ret |-> st.ret]

Constructed ==
    /\ self = Config(backend).obj
    /\ warnings = Config(backend).warned
    /\ log = <<>>
    /\ last = [op |-> "Config", other |-> NoOther, exc |-> "", ret |-> None]

Init == backend \in Backends /\ Constructed

InitLoad == backend \in LoadedBackends /\ Constructed

\* cfg = Config()
DoConfig ==
    /\ self' = Config(backend).obj
    /\ warnings' = Config(backend).warned
    /\ log' = <<>>
    /\ last' = [op |-> "Config", other |-> NoOther, exc |-> "", ret |-> None]
    /\ UNCHANGED backend

\* cfg.is_valid()
DoIsValid ==
    /\ Ended("is_valid", CallIsValid(Running(self, backend)), NoOther)
    /\ UNCHANGED warnings

\* cfg.check_is_valid()
DoCheckIsValid ==
    /\ Ended("check_is_valid", CheckIsValid(Running(self, backend)), NoOther)
    /\ UNCHANGED warnings

\* cfg.revert(other)
DoRevert ==
    \E other \in Others, locked \in BOOLEAN, checked \in BOOLEAN :
        /\ Ended("revert", Revert(Running(self, backend), other, locked, checked),
                 OtherOf(other))
        /\ UNCHANGED warnings

\* cfg.destroy()
DoDestroy ==
    \E locked \in BOOLEAN :
        /\ Ended("destroy", Destroy(Running(self, backend), locked), NoOther)
        /\ UNCHANGED warnings

Next == DoConfig \/ DoIsValid \/ DoCheckIsValid \/ DoRevert \/ DoDestroy

Spec == Init /\ [][Next]_vars

\* Loading alone, from more settings.
NextLoad == DoConfig \/ DoIsValid \/ DoCheckIsValid

SpecLoad == InitLoad /\ [][NextLoad]_vars

\* ------------------------------------------------------------------ claims
NonEmptyStr(x) == x.t = "str" /\ x.v # <<>>

IsRemoval(e) == e.ev = "run" /\ e.val = Str(RemoveSectionText)

RunEvents(l) == SelectSeq(l, LAMBDA e : e.ev = "run")

\* The command the instance was given at construction for its scope.
ScopeCommand == IF backend.worktreeConfig THEN GitConfigWorktree ELSE GitConfig

\* The text of the command that writes value v under the key of field f.
KeyWriteText(f, v) == KeyOf(f) \o <<SP>> \o v.v

\* C1: is_valid() returns true if and only if dir, result_branch and
\* pile_branch are all non-empty strings, for every instance reachable by
\* construction, revert and destroy.
C1_IsValidIffNonEmptyStrings ==
    (last.op = "is_valid" /\ last.exc = "")
        => (last.ret = Bool(TRUE)
                <=> \A f \in CanonicalFields : NonEmptyStr(GetAttr(self, f)))

\* C2: after B.revert(A) returns with A.is_valid() true, B's three canonical
\* fields equal A's and exactly three key writes were issued, one each for
\* pile.dir, pile.result-branch and pile.pile-branch, carrying A's values.
C2_RevertRoundTrip ==
    (last.op = "revert" /\ last.exc = "" /\ last.other.valid = "True")
        => /\ GetAttr(self, dir) = last.other.dir
           /\ GetAttr(self, result_branch) = last.other.result_branch
           /\ GetAttr(self, pile_branch) = last.other.pile_branch
           /\ [i \in 1..Len(RunEvents(log)) |-> RunEvents(log)[i].val]
                = <<Str(KeyWriteText(dir, last.other.dir)),
                    Str(KeyWriteText(result_branch, last.other.result_branch)),
                    Str(KeyWriteText(pile_branch, last.other.pile_branch))>>

\* The settings that name field f, in file order.
Naming(f) == SelectSeq(backend.entries, LAMBDA e : FieldName(e.key) = f)

\* The boolean a setting stands for: true for a bare key, true for a value
\* that is yes, on, true or 1 in any case, false for any other value.
Coerced(e) == e.bare \/ Lower(e.value) \in TruthyTokens

\* C3: after load every boolean-typed field holds a boolean: its default if
\* no line names it, and otherwise the coercion of the last line naming it.
C3_BoolFieldsCoerced ==
    last.op = "Config"
        => \A f \in BoolFields :
              GetAttr(self, f) =
                  IF Naming(f) = <<>> THEN Defaults(backend)[f]
                  ELSE Bool(Coerced(Naming(f)[Len(Naming(f))]))

\* C4: revert(other) with other.is_valid() false issues the removal of the
\* pile section exactly once, before any field is copied and before any key
\* write; with other.is_valid() true it issues no removal.
C4_DestroyPrecedesCopies ==
    last.op = "revert"
        => /\ last.other.valid = "False"
                => /\ Len(SelectSeq(log, IsRemoval)) = 1
                   /\ IsRemoval(log[1])
           /\ last.other.valid = "True" => SelectSeq(log, IsRemoval) = <<>>

CanonicalKeys == {KeyOf(f) : f \in CanonicalFields}

\* The settings of the git configuration b under keys other than the three
\* canonical ones.
NonCanonical(b) == SelectSeq(b.entries, LAMBDA e : e.key \notin CanonicalKeys)

\* Every attribute but the three canonical fields is the same in a and b.
SameOtherFields(a, b) ==
    /\ DOMAIN a \cup CanonicalFields = DOMAIN b \cup CanonicalFields
    /\ \A n \in DOMAIN a \ CanonicalFields : a[n] = b[n]

\* C5: revert(other) leaves every field other than the three canonical ones
\* unchanged in memory and in the git configuration, for every other.
C5_RevertFrame ==
    [][last'.op = "revert"
          => /\ SameOtherFields(self, self')
             /\ NonCanonical(backend') = NonCanonical(backend)]_vars

\* C5, amended: revert(other) leaves every field other than the three
\* canonical ones unchanged in memory for every other, and in the git
\* configuration unless other is invalid and the removal of the section
\* succeeds.
C5_RevertFrameUnlessDestroyed ==
    [][last'.op = "revert"
          => /\ SameOtherFields(self, self')
             /\ (\/ last'.other.valid = "False"
                    /\ \E i \in DOMAIN log' : IsRemoval(log'[i]) /\ log'[i].rc = 0
                 \/ NonCanonical(backend') = NonCanonical(backend))]_vars

\* A revert with a valid other has written the three keys and the git
\* configuration still holds a setting that is not canonical.
C5_Witness ==
    /\ last.op = "revert" /\ last.exc = "" /\ last.other.valid = "True"
    /\ Len(RunEvents(log)) = 3
    /\ NonCanonical(backend) # <<>>

\* C6: the write scope chosen at construction stays fixed: whatever was
\* loaded, the instance writes through the command of that scope.
C6_WriteScopeFixed ==
    /\ GetAttr(self, write) = RunWrapper(ScopeCommand)
    /\ \A i \in DOMAIN log : log[i].ev = "run" => log[i].name = ScopeCommand

\* The keys of the loaded settings.
LoadedKeys == {backend.entries[i].key : i \in DOMAIN backend.entries}

\* C7: two distinct keys under pile. never map to the same field name.
C7_FieldNameInjective ==
    \A k1, k2 \in LoadedKeys : FieldName(k1) = FieldName(k2) => k1 = k2

\* A key whose name after pile. holds no dot and no underscore.
Hyphenated(key) ==
    /\ InSection(key)
    /\ \A i \in 6..Len(key) : key[i] \notin {".", "_"}

\* The key a field name is written under.
KeyOfName(name) ==
    PILE \o [i \in 1..Len(name) |-> IF name[i] = "_" THEN "-" ELSE name[i]]

\* C7, amended: on the keys whose name after pile. holds no dot and no
\* underscore the mapping is 1:1 and reversible: distinct keys map to
\* distinct field names and the key is recovered from the field name.
C7_FieldNameInjectiveOnHyphenated ==
    \A k1 \in LoadedKeys :
        Hyphenated(k1)
            => /\ KeyOfName(FieldName(k1)) = k1
               /\ \A k2 \in LoadedKeys :
                     (Hyphenated(k2) /\ FieldName(k1) = FieldName(k2)) => k1 = k2

\* Two distinct hyphenated keys were loaded into their two fields.
C7_Witness ==
    /\ last.op = "Config"
    /\ \E k1, k2 \in LoadedKeys :
          /\ k1 # k2 /\ Hyphenated(k1) /\ Hyphenated(k2)
          /\ Len(FieldName(k1)) > 1
          /\ FieldName(k1) \in DOMAIN self /\ FieldName(k2) \in DOMAIN self

\* C8: destroy() issues exactly one command, the removal of the pile section
\* at the scope of the instance, returns whether its exit status is zero and
\* changes no attribute.
C8_DestroyOneCommand ==
    [][last'.op = "destroy"
          => /\ Len(log') = 1
             /\ IsRemoval(log'[1])
             /\ log'[1].name = ScopeCommand
             /\ last'.ret = Bool(log'[1].rc = 0)
             /\ self' = self]_vars

\* C9: each declared field no loaded line names keeps its default; with no
\* line at all the instance equals the default one and nothing is warned.
C9_DefaultsKept ==
    last.op = "Config"
        => /\ \A f \in DeclaredFields :
                 Naming(f) = <<>> => GetAttr(self, f) = Defaults(backend)[f]
           /\ backend.entries = <<>>
                 => self = Defaults(backend) /\ warnings = <<>> /\ log = <<>>

\* A load that set dir from its line and left result_branch, which no line
\* names, at its default.
C9_Witness ==
    /\ last.op = "Config"
    /\ Naming(dir) # <<>> /\ GetAttr(self, dir) = Str(<<"d1">>)
    /\ Naming(result_branch) = <<>> /\ GetAttr(self, result_branch) = Str(<<>>)

Absent(key) == \A i \in DOMAIN backend.entries : backend.entries[i].key # key

\* The value git holds under a key that is not absent: that of its last
\* setting.
Held(key) ==
    LET hits == SelectSeq(backend.entries, LAMBDA e : e.key = key)
    IN  IF hits[Len(hits)].bare THEN None ELSE Str(hits[Len(hits)].value)

\* C10: after revert(other) returns, whatever the commands' outcomes, each of
\* the keys pile.dir, pile.result-branch and pile.pile-branch holds the value
\* of its field, an absent key standing for an empty field.
C10_CanonicalPersisted ==
    (last.op = "revert" /\ last.exc = "")
        => \A f \in CanonicalFields :
              IF Absent(KeyOf(f)) THEN ~Truthy(GetAttr(self, f))
              ELSE Held(KeyOf(f)) = GetAttr(self, f)

====
